---- MODULE Spec2Model ----
(***************************************************************************)
(* The LiveCritic component (realtime audio session bridge): the session   *)
(* state machine, the capture path, the inbound decode / playback          *)
(* scheduler and teardown, as a state machine whose steps are the          *)
(* component's event handlers and the continuations of its awaits.         *)
(*                                                                         *)
(* Time is counted in whole ticks of an audio context's clock; a buffer's  *)
(* duration is a whole number of ticks.  The volume 0.8 is held in tenths. *)
(*                                                                         *)
(* The PostCreator component and the post list of App: the form state,     *)
(* the debounced draft autosave to localStorage and publishing.  The two   *)
(* components share no state.                                              *)
(***************************************************************************)
EXTENDS Integers, Sequences, FiniteSets

\* ----------------------------------------------------------------- bounds
MaxSessions == 2    \* startSession calls in one behaviour
MaxMsgs     == 2    \* inbound audio blobs delivered in one behaviour
MaxTicks    == 1    \* clock ticks, over all audio contexts, in one behaviour
MaxDur      == 2    \* longest decoded buffer, in ticks
MaxChunks   == 2    \* capture chunks delivered in one behaviour
MaxEdits    == 2    \* changes of the PostCreator form in one behaviour
MaxPublish  == 2    \* calls of handlePublish in one behaviour
MaxInFlight == 1    \* file reads, and image edits, in flight at a time

SpeakingVolume == 8 \* setVolume(0.8), in tenths

Sessions  == 1..MaxSessions
Durations == 1..MaxDur
NoRef     == 0      \* a ref whose current is null

Max(a, b) == IF a >= b THEN a ELSE b

RECURSIVE Sum(_, _)
Sum(f, n) == IF n = 0 THEN 0 ELSE f[n] + Sum(f, n - 1)

VARIABLES
    \* React state of LiveCritic
    status, active, volume, isSpeaking,
    \* refs of LiveCritic (NoRef, or the startSession call that made the object)
    audioContextRef, sessionPromiseRef, inputSourceRef, processorRef,
    nextStartTimeRef,
    \* the startSession calls: how many, and where each one is
    nStarted, pc,
    \* the remote session each call asked for
    channel,
    \* the 24 kHz output contexts: clock, and calls of close()
    currentTime, ctxClosed,
    \* calls of disconnect() on each script processor and each input source
    procDisconnected, srcDisconnected,
    \* onMessage handlers suspended at the await of decodeAudioData
    decoding, nMsgs,
    \* every source.start call so far, in call order
    scheduled,
    \* pending visualizer timeouts
    timers,
    \* outbound audio: chunks captured, then-continuations waiting on each
    \* session promise, frames handed to each session's sendRealtimeInput
    nChunks, queued, sent,
    \* bookkeeping of the run (no program state)
    discCalls, quiesced, errored,
    \* React state of PostCreator
    url, analyzing, draft, genre, coverImage, videoUrl, tags, tagInput,
    lastSaved,
    \* file reads of handleImageUpload and calls of editImage in flight
    reading, imageEdits,
    \* React state of the mounted VeoGenerator, and its generateVeoVideo call
    previewUrl, generating,
    \* React state of App: the post list
    posts,
    \* localStorage at DRAFT_STORAGE_KEY: empty, or the one item stored
    localStorage,
    \* pending autosave timeouts, each the form values its closure holds
    saveTimers,
    \* bookkeeping of the run (no program state)
    nEdits, nPublish, sincePublish, lastWrite

\* Clock ticks so far, over all output contexts.
Ticks == Sum(currentTime, MaxSessions)

progVars == <<status, active, volume, isSpeaking, audioContextRef,
              sessionPromiseRef, inputSourceRef, processorRef, nextStartTimeRef>>
sessVars == <<nStarted, pc, channel>>
devVars  == <<ctxClosed, procDisconnected, srcDisconnected>>
inVars   == <<decoding, nMsgs, scheduled, timers>>
outVars  == <<nChunks, queued, sent>>
liveVars == <<progVars, sessVars, devVars, inVars, outVars, currentTime,
              discCalls, quiesced, errored>>

formVars == <<url, draft, tags, genre, coverImage>>
visVars  == <<reading, imageEdits, previewUrl, generating>>
postVars == <<formVars, analyzing, videoUrl, tagInput, lastSaved, posts,
              localStorage, saveTimers, nEdits, nPublish, sincePublish,
              lastWrite, visVars>>
vars     == <<liveVars, postVars>>

\* ------------------------------------------------------ PostCreator values
Texts       == {"", "a"}                \* "" is also an absent field
Urls        == {"", "u"}
Genres      == {"Goth", "Metal"}
TagNames    == {"Music", "Review", "x"}
NoImage     == "null"                   \* coverImage, videoUrl: null
Absent      == "absent"                 \* a property the stored item lacks
NoDraft     == {}                       \* getItem returns null
Image       == "img"                    \* the data URL of an uploaded file
Edited      == "edited"                 \* the data URL editImage returns
Video       == "vid"
DefaultTags == <<"Music", "Review">>
EmptyDraft  == [title |-> "", content |-> ""]

\* The object the autosave closure builds: { url, draft, tags, genre,
\* coverImage }.
DataToSave(u, d, t, g, c) ==
    [url |-> u, draft |-> d, tags |-> t, genre |-> g, coverImage |-> c]

\* The values of the current render.
Form == DataToSave(url, draft, tags, genre, coverImage)

\* const { coverImage: _, ...rest } = dataToSave
Rest(data) == [data EXCEPT !.coverImage = Absent]

\* What an earlier visit may have left under the key.
SavedDrafts ==
    { NoDraft,
      {DataToSave("u", [title |-> "a", content |-> "a"], DefaultTags, "Metal",
                  Image)},
      {Rest(DataToSave("", [title |-> "a", content |-> ""], <<"x">>, "Goth",
                       Image))} }

\* PostCreator after its first render and its two mount effects: the draft
\* found under the key is loaded field by field (a field that is falsy is
\* skipped), and the save effect has armed a timeout for the loaded values.
Mounted(saved) ==
    /\ localStorage = saved
    /\ IF saved = NoDraft
       THEN /\ url = "" /\ draft = EmptyDraft /\ tags = DefaultTags
            /\ genre = "Goth" /\ coverImage = NoImage
       ELSE LET parsed == CHOOSE d \in saved : TRUE IN
            /\ url = parsed.url
            /\ draft = parsed.draft
            /\ tags = parsed.tags
            /\ genre = parsed.genre
            /\ coverImage = IF parsed.coverImage \in {NoImage, Absent}
                            THEN NoImage ELSE parsed.coverImage
    /\ videoUrl = NoImage
    /\ reading = 0 /\ imageEdits = 0
    /\ previewUrl = NoImage /\ generating = FALSE
    /\ analyzing = FALSE /\ tagInput = "" /\ lastSaved = FALSE
    /\ posts = <<>>
    /\ saveTimers = {Form}
    /\ nEdits = 0 /\ nPublish = 0 /\ sincePublish = FALSE /\ lastWrite = "none"

\* ------------------------------------------------------------------- Init
LiveInit ==
    /\ status = "idle" /\ active = FALSE /\ volume = 0 /\ isSpeaking = FALSE
    /\ audioContextRef = NoRef /\ sessionPromiseRef = NoRef
    /\ inputSourceRef = NoRef /\ processorRef = NoRef
    /\ nextStartTimeRef = 0
    /\ nStarted = 0
    /\ pc = [i \in Sessions |-> "none"]
    /\ channel = [i \in Sessions |-> "none"]
    /\ currentTime = [i \in Sessions |-> 0]
    /\ ctxClosed = [i \in Sessions |-> 0]
    /\ procDisconnected = [i \in Sessions |-> 0]
    /\ srcDisconnected = [i \in Sessions |-> 0]
    /\ decoding = {} /\ nMsgs = 0 /\ scheduled = <<>> /\ timers = 0
    /\ nChunks = 0
    /\ queued = [i \in Sessions |-> <<>>]
    /\ sent = [i \in Sessions |-> <<>>]
    /\ discCalls = 0 /\ quiesced = FALSE /\ errored = FALSE

\* Both components mounted, nothing under the draft key.
Init == LiveInit /\ Mounted(NoDraft)

\* Both components mounted, with what an earlier visit left under the key.
InitWithDraft == LiveInit /\ \E saved \in SavedDrafts : Mounted(saved)

\* ------------------------------------------------------------- disconnect
\* One more call of the release method of the object a ref holds.
Released(counts, ref) ==
    IF ref # NoRef THEN [counts EXCEPT ![ref] = @ + 1] ELSE counts

\* disconnect() releasing what the refs hold without nulling the refs.
disconnectKeepsRefs ==
    /\ procDisconnected' = Released(procDisconnected, processorRef)
    /\ srcDisconnected' = Released(srcDisconnected, inputSourceRef)
    /\ ctxClosed' = Released(ctxClosed, audioContextRef)
    /\ active' = FALSE
    /\ status' = "idle"
    /\ isSpeaking' = FALSE
    /\ volume' = 0
    /\ decoding' = {[h EXCEPT !.torn = TRUE] : h \in decoding}
    /\ discCalls' = IF discCalls < 2 THEN discCalls + 1 ELSE 2
    /\ quiesced' = (quiesced \/ active)
    /\ UNCHANGED <<processorRef, inputSourceRef, audioContextRef,
                   sessionPromiseRef, nextStartTimeRef>>

\* disconnect(): release what the three refs hold, null them, reset the state.
disconnect ==
    /\ procDisconnected' = Released(procDisconnected, processorRef)
    /\ processorRef' = NoRef
    /\ srcDisconnected' = Released(srcDisconnected, inputSourceRef)
    /\ inputSourceRef' = NoRef
    /\ ctxClosed' = Released(ctxClosed, audioContextRef)
    /\ audioContextRef' = NoRef
    /\ active' = FALSE
    /\ status' = "idle"
    /\ isSpeaking' = FALSE
    /\ volume' = 0
    /\ decoding' = {[h EXCEPT !.torn = TRUE] : h \in decoding}
    /\ discCalls' = IF discCalls < 2 THEN discCalls + 1 ELSE 2
    /\ quiesced' = (quiesced \/ active)
    /\ UNCHANGED <<sessionPromiseRef, nextStartTimeRef>>

\* The toggle button while active: onClick = disconnect.
ClickDisconnect ==
    /\ active
    /\ disconnect
    /\ errored' = FALSE
    /\ UNCHANGED postVars
    /\ UNCHANGED <<sessVars, nMsgs, scheduled, timers, outVars, currentTime>>

\* ----------------------------------------------------------- startSession
\* The toggle button while not active: onClick = startSession.  The call runs
\* to its first await: setStatus('connecting'), new output AudioContext,
\* getUserMedia requested.
StartSession ==
    /\ ~active
    /\ nStarted < MaxSessions
    /\ nStarted' = nStarted + 1
    /\ status' = "connecting"
    /\ audioContextRef' = nStarted + 1
    /\ pc' = [pc EXCEPT ![nStarted + 1] = "getUserMedia"]
    /\ discCalls' = 0
    /\ errored' = FALSE
    /\ UNCHANGED postVars
    /\ quiesced' = FALSE
    /\ UNCHANGED <<active, volume, isSpeaking, sessionPromiseRef, inputSourceRef,
                   processorRef, nextStartTimeRef, channel, devVars, inVars,
                   outVars, currentTime>>

\* getUserMedia resolved: the rest of the try block of call i, to its end.
GetUserMediaResolved(i) ==
    /\ pc[i] = "getUserMedia"
    /\ pc' = [pc EXCEPT ![i] = "setup"]
    /\ inputSourceRef' = i
    /\ processorRef' = i
    /\ sessionPromiseRef' = i
    /\ channel' = [channel EXCEPT ![i] = "pending"]
    /\ discCalls' = 0
    /\ errored' = FALSE
    /\ UNCHANGED postVars
    /\ UNCHANGED <<status, active, volume, isSpeaking, audioContextRef,
                   nextStartTimeRef, nStarted, devVars, inVars, outVars,
                   currentTime, quiesced>>

\* A catch block that swallows the rejection: the status is left as it was.
GetUserMediaRejectedSilently(i) ==
    /\ pc[i] = "getUserMedia"
    /\ pc' = [pc EXCEPT ![i] = "failed"]
    /\ discCalls' = 0
    /\ errored' = FALSE
    /\ UNCHANGED postVars
    /\ UNCHANGED <<progVars, nStarted, channel, devVars, inVars, outVars,
                   currentTime, quiesced>>

\* getUserMedia rejected: the catch block of call i.
GetUserMediaRejected(i) ==
    /\ pc[i] = "getUserMedia"
    /\ pc' = [pc EXCEPT ![i] = "failed"]
    /\ status' = "error"
    /\ discCalls' = 0
    /\ errored' = FALSE
    /\ UNCHANGED postVars
    /\ UNCHANGED <<active, volume, isSpeaking, audioContextRef, sessionPromiseRef,
                   inputSourceRef, processorRef, nextStartTimeRef, nStarted,
                   channel, devVars, inVars, outVars, currentTime, quiesced>>

\* -------------------------------------------------------- gateway callbacks
\* A handshake whose waiting continuations run last-attached first.
OnOpenLastFirst(i) ==
    /\ channel[i] = "pending"
    /\ channel' = [channel EXCEPT ![i] = "open"]
    /\ status' = "live"
    /\ active' = TRUE
    /\ sent' = [sent EXCEPT ![i] =
                  @ \o [k \in 1..Len(queued[i]) |->
                           queued[i][Len(queued[i]) + 1 - k]]]
    /\ queued' = [queued EXCEPT ![i] = <<>>]
    /\ discCalls' = 0
    /\ errored' = FALSE
    /\ UNCHANGED postVars
    /\ UNCHANGED <<volume, isSpeaking, audioContextRef, sessionPromiseRef,
                   inputSourceRef, processorRef, nextStartTimeRef, nStarted, pc,
                   devVars, inVars, nChunks, currentTime, quiesced>>

\* The handshake of call i succeeded: onOpen runs, the session promise
\* resolves and the then-continuations waiting on it run in the order they
\* were attached.
OnOpen(i) ==
    /\ channel[i] = "pending"
    /\ channel' = [channel EXCEPT ![i] = "open"]
    /\ status' = "live"
    /\ active' = TRUE
    /\ sent' = [sent EXCEPT ![i] = @ \o queued[i]]
    /\ queued' = [queued EXCEPT ![i] = <<>>]
    /\ discCalls' = 0
    /\ errored' = FALSE
    /\ UNCHANGED postVars
    /\ UNCHANGED <<volume, isSpeaking, audioContextRef, sessionPromiseRef,
                   inputSourceRef, processorRef, nextStartTimeRef, nStarted, pc,
                   devVars, inVars, nChunks, currentTime, quiesced>>

\* The handshake of call i failed: the session promise rejects.  startSession
\* does not await the promise, so nothing of LiveCritic runs.
HandshakeRejected(i) ==
    /\ channel[i] = "pending"
    /\ channel' = [channel EXCEPT ![i] = "rejected"]
    /\ discCalls' = 0
    /\ errored' = FALSE
    /\ UNCHANGED postVars
    /\ UNCHANGED <<progVars, nStarted, pc, devVars, inVars, outVars, currentTime,
                   quiesced>>

\* onError of call i: setStatus('error'); disconnect().  disconnect ends with
\* setStatus('idle'), so the status the handler leaves is idle.
OnError(i) ==
    /\ channel[i] = "open"
    /\ disconnect
    /\ errored' = TRUE
    /\ UNCHANGED postVars
    /\ UNCHANGED <<sessVars, nMsgs, scheduled, timers, outVars, currentTime>>

\* onClose of call i: setStatus('idle'); disconnect().
OnClose(i) ==
    /\ channel[i] = "open"
    /\ channel' = [channel EXCEPT ![i] = "closed"]
    /\ disconnect
    /\ errored' = FALSE
    /\ UNCHANGED postVars
    /\ UNCHANGED <<nStarted, pc, nMsgs, scheduled, timers, outVars, currentTime>>

\* ------------------------------------------------- inbound audio, playback
\* What decodeAudioData can do with a blob: resolve with a buffer of some
\* duration, or reject (a truncated or malformed payload).
Blobs == [ok : {TRUE}, dur : Durations] \cup {[ok |-> FALSE, dur |-> 0]}

\* The cursor left where it was (the advance forgotten).
CursorNotAdvanced(start, dur) == start

\* The cursor after source.start(start) of a buffer of duration dur.
CursorAfter(start, dur) == start + dur

\* onMessage of call i with blob b, to the await of decodeAudioData: the guard
\* on audioContextRef, then the cursor is raised to the clock of the context.
\* A handler that passes the guard stays suspended, holding the context.
OnMessage(i, b) ==
    /\ channel[i] = "open"
    /\ nMsgs < MaxMsgs
    /\ nMsgs' = nMsgs + 1
    /\ discCalls' = 0
    /\ errored' = FALSE
    /\ UNCHANGED postVars
    /\ IF audioContextRef = NoRef
       THEN UNCHANGED <<nextStartTimeRef, decoding>>
       ELSE /\ nextStartTimeRef' =
                   Max(nextStartTimeRef, currentTime[audioContextRef])
            /\ decoding' =
                   {[h EXCEPT !.alone = FALSE] : h \in decoding}
                   \cup {[arr |-> nMsgs + 1, sess |-> i, ctx |-> audioContextRef,
                          ok |-> b.ok, dur |-> b.dur,
                          before |-> nextStartTimeRef,
                          alone |-> (decoding = {}), torn |-> FALSE]}
    /\ UNCHANGED <<status, active, volume, isSpeaking, audioContextRef,
                   sessionPromiseRef, inputSourceRef, processorRef, sessVars,
                   devVars, scheduled, timers, outVars, currentTime, quiesced>>

\* decodeAudioData resolved for handler h: the buffer is started at the
\* cursor, the cursor advances by its duration, the indicator is set and its
\* timeout armed.  The handler holds the context it read before the await and
\* tests nothing after it; creating and starting a source on a context that
\* has been closed meanwhile does not throw.
DecodeResolved(h) ==
    /\ h \in decoding /\ h.ok
    /\ decoding' = decoding \ {h}
    /\ scheduled' = Append(scheduled,
           [arr |-> h.arr, sess |-> h.sess, ctx |-> h.ctx,
            start |-> nextStartTimeRef,
            dur |-> h.dur,
            now |-> currentTime[h.ctx]])
    /\ nextStartTimeRef' = CursorAfter(nextStartTimeRef, h.dur)
    /\ isSpeaking' = TRUE
    /\ volume' = SpeakingVolume
    /\ timers' = timers + 1
    /\ discCalls' = 0
    /\ errored' = FALSE
    /\ UNCHANGED postVars
    /\ UNCHANGED <<status, active, audioContextRef, sessionPromiseRef,
                   inputSourceRef, processorRef, sessVars, devVars, nMsgs,
                   outVars, currentTime, quiesced>>

\* decodeAudioData rejected for handler h: the catch block logs the error.
DecodeRejected(h) ==
    /\ h \in decoding /\ ~h.ok
    /\ decoding' = decoding \ {h}
    /\ discCalls' = 0
    /\ errored' = FALSE
    /\ UNCHANGED postVars
    /\ UNCHANGED <<progVars, sessVars, devVars, nMsgs, scheduled, timers,
                   outVars, currentTime, quiesced>>

\* A visualizer timeout whose callback does not clear the indicator.
TimerFiredKeepsIndicator ==
    /\ timers > 0
    /\ timers' = timers - 1
    /\ discCalls' = 0
    /\ errored' = FALSE
    /\ UNCHANGED postVars
    /\ UNCHANGED <<progVars, sessVars, devVars, decoding, nMsgs, scheduled,
                   outVars, currentTime, quiesced>>

\* A visualizer timeout fires.
TimerFired ==
    /\ timers > 0
    /\ timers' = timers - 1
    /\ volume' = 0
    /\ isSpeaking' = FALSE
    /\ discCalls' = 0
    /\ errored' = FALSE
    /\ UNCHANGED postVars
    /\ UNCHANGED <<status, active, audioContextRef, sessionPromiseRef,
                   inputSourceRef, processorRef, nextStartTimeRef, sessVars,
                   devVars, decoding, nMsgs, scheduled, outVars, currentTime,
                   quiesced>>

\* The clock of output context i advances while the context is open.
Tick(i) ==
    /\ pc[i] # "none" /\ ctxClosed[i] = 0
    /\ Ticks < MaxTicks
    /\ currentTime' = [currentTime EXCEPT ![i] = @ + 1]
    /\ UNCHANGED <<progVars, sessVars, devVars, inVars, outVars, discCalls,
                   quiesced, errored, postVars>>

\* ---------------------------------------------------------- outbound audio
\* onaudioprocess of the processor of call i (connected, its source attached):
\* the chunk is encoded and a continuation attached to the promise
\* sessionPromiseRef holds now; it runs at once when that promise is resolved.
OnAudioProcess(i) ==
    /\ pc[i] = "setup"
    /\ procDisconnected[i] = 0 /\ srcDisconnected[i] = 0
    /\ nChunks < MaxChunks
    /\ nChunks' = nChunks + 1
    /\ discCalls' = 0
    /\ errored' = FALSE
    /\ UNCHANGED postVars
    /\ LET p == sessionPromiseRef IN
       CASE channel[p] = "open" ->
              /\ sent' = [sent EXCEPT ![p] = Append(@, nChunks + 1)]
              /\ UNCHANGED queued
         [] channel[p] = "pending" ->
              /\ queued' = [queued EXCEPT ![p] = Append(@, nChunks + 1)]
              /\ UNCHANGED sent
         [] OTHER -> UNCHANGED <<queued, sent>>
    /\ UNCHANGED <<progVars, sessVars, devVars, inVars, currentTime, quiesced>>

\* -------------------------------------------------------------------- Next
\* Every step but a call of startSession.
Continue ==
    \/ ClickDisconnect
    \/ \E i \in Sessions : GetUserMediaResolved(i)
    \/ \E i \in Sessions : GetUserMediaRejected(i)
    \/ \E i \in Sessions : OnOpen(i)
    \/ \E i \in Sessions : HandshakeRejected(i)
    \/ \E i \in Sessions : OnError(i)
    \/ \E i \in Sessions : OnClose(i)
    \/ \E i \in Sessions, b \in Blobs : OnMessage(i, b)
    \/ \E h \in decoding : DecodeResolved(h)
    \/ \E h \in decoding : DecodeRejected(h)
    \/ TimerFired
    \/ \E i \in Sessions : Tick(i)
    \/ \E i \in Sessions : OnAudioProcess(i)

Next == StartSession \/ Continue

Spec == Init /\ [][Next]_vars

\* The behaviours of a single session: startSession is called once.
StartOnce == nStarted = 0 /\ StartSession

NextOne == StartOnce \/ Continue

OneSession == Init /\ [][NextOne]_vars

\* The capture path alone: the sessions' life cycle and onaudioprocess.  The
\* steps left out (inbound audio, the clock and the visualizer timers) read
\* and write none of pc, channel, sessionPromiseRef, the capture nodes,
\* queued and sent.
Lifecycle ==
    \/ ClickDisconnect
    \/ \E i \in Sessions : GetUserMediaResolved(i)
    \/ \E i \in Sessions : GetUserMediaRejected(i)
    \/ \E i \in Sessions : OnOpen(i)
    \/ \E i \in Sessions : HandshakeRejected(i)
    \/ \E i \in Sessions : OnError(i)
    \/ \E i \in Sessions : OnClose(i)

NextCapture == StartSession \/ Lifecycle \/ \E i \in Sessions : OnAudioProcess(i)

Capture == Init /\ [][NextCapture]_vars

\* The speaking indicator alone, over one call of startSession: the session's
\* life cycle, the inbound audio and the visualizer timeouts.  The steps left
\* out (the clock and onaudioprocess) read and write none of isSpeaking,
\* volume and timers.  A timeout set with setTimeout is never cancelled by
\* the component, and the event loop runs every timeout that is due.
Inbound ==
    \/ \E i \in Sessions, b \in Blobs : OnMessage(i, b)
    \/ \E h \in decoding : DecodeResolved(h)
    \/ \E h \in decoding : DecodeRejected(h)
    \/ TimerFired

NextIndicator == StartOnce \/ Lifecycle \/ Inbound

Indicator == Init /\ [][NextIndicator]_vars /\ WF_vars(TimerFired)

\* The playback path alone, over one call of startSession: the steps of
\* Indicator and the clocks.  The step left out, onaudioprocess, writes
\* nChunks, queued and sent only, which no other step reads but onOpen to
\* move queued to sent.
NextPlayback == NextIndicator \/ \E i \in Sessions : Tick(i)

Playback == Init /\ [][NextPlayback]_vars

\* ------------------------------------------------------------ PostCreator
\* Of the draft the title and the content are kept; its metaDescription,
\* youtubeUrl and groundingSources, which no handler reads, are left out, and
\* with them the SEO optimizer, which changes the draft the way
\* AnalyzeResolved does.
Range(q) == {q[k] : k \in 1..Len(q)}

\* A save effect without its cleanup: the timeout of the previous run stays.
SaveEffectNoCleanup == saveTimers' = saveTimers \cup {Form'}

\* The save effect after a render in which url, draft, tags, genre or
\* coverImage changed: the cleanup of the previous run clears the timeout it
\* had set (its closure holds the values of that render), then a timeout is
\* set whose closure holds the values of the new render.
SaveEffect == saveTimers' = (saveTimers \ {Form}) \cup {Form'}

\* What a handler that changes a dependency of the save effect leaves behind.
Changed ==
    /\ nEdits' = nEdits + 1
    /\ sincePublish' = FALSE
    /\ SaveEffect
    /\ UNCHANGED <<lastSaved, posts, localStorage, nPublish, lastWrite, liveVars>>

\* What a handler that changes none of them leaves alone.
NoSave ==
    UNCHANGED <<formVars, lastSaved, posts, localStorage, saveTimers, nEdits,
                nPublish, sincePublish, lastWrite, liveVars>>

\* onChange of the link input.
SetUrl(u) ==
    /\ nEdits < MaxEdits
    /\ u # url
    /\ url' = u
    /\ UNCHANGED <<draft, tags, genre, coverImage, analyzing, videoUrl, tagInput>>
    /\ Changed
    /\ UNCHANGED visVars

\* handleUrlAnalyze up to its await (the button is disabled while analyzing).
AnalyzeStart ==
    /\ url # "" /\ ~analyzing
    /\ analyzing' = TRUE
    /\ UNCHANGED <<videoUrl, tagInput>>
    /\ NoSave
    /\ UNCHANGED visVars

\* analyzeLink resolved: the title and the content of the result are merged
\* into the draft of that moment.
AnalyzeResolved(t, c) ==
    /\ nEdits < MaxEdits
    /\ analyzing
    /\ analyzing' = FALSE
    /\ draft' = [draft EXCEPT !.title = t, !.content = c]
    /\ UNCHANGED <<url, tags, genre, coverImage, videoUrl, tagInput>>
    /\ Changed
    /\ UNCHANGED visVars

\* analyzeLink rejected: an alert, nothing else.
AnalyzeRejected ==
    /\ analyzing
    /\ analyzing' = FALSE
    /\ UNCHANGED <<videoUrl, tagInput>>
    /\ NoSave
    /\ UNCHANGED visVars

\* onChange of the title input (rendered while the draft has a title).
SetTitle(t) ==
    /\ nEdits < MaxEdits
    /\ draft.title # "" /\ t # draft.title
    /\ draft' = [draft EXCEPT !.title = t]
    /\ UNCHANGED <<url, tags, genre, coverImage, analyzing, videoUrl, tagInput>>
    /\ Changed
    /\ UNCHANGED visVars

\* onChange of the content textarea.
SetContent(c) ==
    /\ nEdits < MaxEdits
    /\ draft.title # "" /\ c # draft.content
    /\ draft' = [draft EXCEPT !.content = c]
    /\ UNCHANGED <<url, tags, genre, coverImage, analyzing, videoUrl, tagInput>>
    /\ Changed
    /\ UNCHANGED visVars

\* onChange of the genre select.
SetGenre(g) ==
    /\ nEdits < MaxEdits
    /\ draft.title # "" /\ g # genre
    /\ genre' = g
    /\ UNCHANGED <<url, draft, tags, coverImage, analyzing, videoUrl, tagInput>>
    /\ Changed
    /\ UNCHANGED visVars

\* onChange of the tag input.
SetTagInput(v) ==
    /\ draft.title # "" /\ v # tagInput
    /\ tagInput' = v
    /\ UNCHANGED <<analyzing, videoUrl>>
    /\ NoSave
    /\ UNCHANGED visVars

\* handleAddTag: nothing when the input is empty or the tag is there already.
HandleAddTag ==
    /\ draft.title # ""
    /\ IF tagInput # "" /\ tagInput \notin Range(tags)
       THEN /\ nEdits < MaxEdits
            /\ tags' = Append(tags, tagInput)
            /\ tagInput' = ""
            /\ UNCHANGED <<url, draft, genre, coverImage, analyzing, videoUrl>>
            /\ Changed
       ELSE /\ UNCHANGED <<analyzing, videoUrl, tagInput>>
            /\ NoSave
    /\ UNCHANGED visVars

\* handleRemoveTag.
HandleRemoveTag(tag) ==
    /\ nEdits < MaxEdits
    /\ draft.title # "" /\ tag \in Range(tags)
    /\ tags' = SelectSeq(tags, LAMBDA x : x # tag)
    /\ UNCHANGED <<url, draft, genre, coverImage, analyzing, videoUrl, tagInput>>
    /\ Changed
    /\ UNCHANGED visVars

\* The image editor and the video generator are rendered while there is a
\* cover image and no video; the file input while there is no cover image.
GeneratorShown == coverImage # NoImage /\ videoUrl = NoImage

\* The video generator unmounts: its state is gone, and a generateVeoVideo
\* call of it that completes later sets the state of no mounted component.
GeneratorUnmounted == previewUrl' = NoImage /\ generating' = FALSE

\* handleImageUpload up to readAsDataURL.
UploadStart ==
    /\ coverImage = NoImage
    /\ reading < MaxInFlight
    /\ reading' = reading + 1
    /\ UNCHANGED <<analyzing, videoUrl, tagInput, imageEdits, previewUrl,
                   generating>>
    /\ NoSave

\* reader.onload of handleImageUpload, whenever the read completes.
ImageLoaded ==
    /\ nEdits < MaxEdits
    /\ reading > 0
    /\ reading' = reading - 1
    /\ coverImage' = Image
    /\ videoUrl' = NoImage
    /\ UNCHANGED <<url, draft, tags, genre, analyzing, tagInput, imageEdits,
                   previewUrl, generating>>
    /\ Changed

\* ImageEditor.handleEdit up to the await of editImage (the Enter key calls
\* it whether or not an edit is under way).
EditStart ==
    /\ GeneratorShown
    /\ imageEdits < MaxInFlight
    /\ imageEdits' = imageEdits + 1
    /\ UNCHANGED <<analyzing, videoUrl, tagInput, reading, previewUrl,
                   generating>>
    /\ NoSave

\* editImage resolved: the continuation calls onImageUpdate, which is
\* PostCreator's setCoverImage, whether or not the editor is still mounted.
EditResolved ==
    /\ nEdits < MaxEdits
    /\ imageEdits > 0
    /\ imageEdits' = imageEdits - 1
    /\ coverImage' = Edited
    /\ UNCHANGED <<url, draft, tags, genre, analyzing, videoUrl, tagInput,
                   reading, previewUrl, generating>>
    /\ Changed

\* editImage rejected: an alert, nothing else.
EditRejected ==
    /\ imageEdits > 0
    /\ imageEdits' = imageEdits - 1
    /\ UNCHANGED <<analyzing, videoUrl, tagInput, reading, previewUrl,
                   generating>>
    /\ NoSave

\* VeoGenerator.handleGenerate up to its awaits (the button is disabled
\* while loading).
GenerateStart ==
    /\ GeneratorShown /\ ~generating
    /\ generating' = TRUE
    /\ previewUrl' = NoImage
    /\ UNCHANGED <<analyzing, videoUrl, tagInput, reading, imageEdits>>
    /\ NoSave

\* generateVeoVideo resolved in the mounted generator: setPreviewUrl(url).
GenerateResolved ==
    /\ generating
    /\ generating' = FALSE
    /\ previewUrl' = Video
    /\ UNCHANGED <<analyzing, videoUrl, tagInput, reading, imageEdits>>
    /\ NoSave

\* generateVeoVideo rejected, or no API key: an error message.
GenerateRejected ==
    /\ generating
    /\ generating' = FALSE
    /\ UNCHANGED <<analyzing, videoUrl, tagInput, reading, imageEdits,
                   previewUrl>>
    /\ NoSave

\* The button that discards the preview.
DiscardPreview ==
    /\ previewUrl # NoImage
    /\ previewUrl' = NoImage
    /\ UNCHANGED <<analyzing, videoUrl, tagInput, reading, imageEdits,
                   generating>>
    /\ NoSave

\* A Remove Visuals button that leaves the video.
RemoveVisualsKeepsVideo ==
    /\ nEdits < MaxEdits
    /\ coverImage # NoImage
    /\ coverImage' = NoImage
    /\ GeneratorUnmounted
    /\ UNCHANGED <<url, draft, tags, genre, analyzing, videoUrl, tagInput,
                   reading, imageEdits>>
    /\ Changed

\* Use This Video: onVideoGenerated(previewUrl), PostCreator's setVideoUrl;
\* with a video the generator is no longer rendered.
VideoGenerated ==
    /\ GeneratorShown /\ previewUrl # NoImage
    /\ videoUrl' = previewUrl
    /\ GeneratorUnmounted
    /\ UNCHANGED <<analyzing, tagInput, reading, imageEdits>>
    /\ NoSave

\* The Remove Video button.
RemoveVideo ==
    /\ videoUrl # NoImage
    /\ videoUrl' = NoImage
    /\ UNCHANGED <<analyzing, tagInput>>
    /\ NoSave
    /\ UNCHANGED visVars

\* The Remove Visuals button.
RemoveVisuals ==
    /\ nEdits < MaxEdits
    /\ coverImage # NoImage
    /\ coverImage' = NoImage
    /\ videoUrl' = NoImage
    /\ GeneratorUnmounted
    /\ UNCHANGED <<url, draft, tags, genre, analyzing, tagInput, reading,
                   imageEdits>>
    /\ Changed

\* The post handlePublish builds (id and date left out).
NewPost ==
    [title |-> draft.title, content |-> draft.content, genre |-> genre,
     tags |-> tags,
     mediaUrl |-> IF videoUrl # NoImage THEN videoUrl
                  ELSE IF coverImage # NoImage THEN coverImage ELSE Absent,
     mediaType |-> IF videoUrl # NoImage THEN "VIDEO" ELSE "IMAGE"]

\* A post list that grows at its end.
handlePostCreatedAtEnd(newPost) == posts' = Append(posts, newPost)

\* App.handlePostCreated: setPosts([newPost, ...posts]).
handlePostCreated(newPost) == posts' = <<newPost>> \o posts

\* handlePublish: returns at once without a title or without content; else
\* hands the post to App, removes the stored draft and resets the form.  The
\* reset changes the dependencies of the save effect, which runs again.
HandlePublish ==
    /\ nPublish < MaxPublish
    /\ nPublish' = nPublish + 1
    /\ IF draft.title = "" \/ draft.content = ""
       THEN UNCHANGED <<formVars, videoUrl, lastSaved, posts, localStorage,
                        saveTimers, sincePublish, previewUrl, generating>>
       ELSE /\ handlePostCreated(NewPost)
            /\ localStorage' = NoDraft
            /\ lastSaved' = FALSE
            /\ url' = ""
            /\ draft' = EmptyDraft
            /\ genre' = "Goth"
            /\ coverImage' = NoImage
            /\ videoUrl' = NoImage
            /\ tags' = DefaultTags
            /\ GeneratorUnmounted
            /\ SaveEffect
            /\ sincePublish' = TRUE
    /\ UNCHANGED <<analyzing, tagInput, nEdits, lastWrite, reading, imageEdits,
                   liveVars>>

\* What setItem does with the item it is given: "ample" stores it; "tight"
\* throws for the item with its image and stores the item without it;
\* "full" throws for both.
Quotas == {"ample", "tight", "full"}

\* An autosave timeout fires: the closure writes the values it holds, and
\* on an exception of setItem writes them again without coverImage; a second
\* exception is logged only.
SaveTimerFired(data, quota) ==
    /\ data \in saveTimers
    /\ quota = "tight" => data.coverImage # NoImage
    /\ saveTimers' = saveTimers \ {data}
    /\ CASE quota = "ample" ->
              /\ localStorage' = {data}
              /\ lastSaved' = TRUE
              /\ lastWrite' = "whole"
         [] quota = "tight" ->
              /\ localStorage' = {Rest(data)}
              /\ lastSaved' = TRUE
              /\ lastWrite' = "rest"
         [] quota = "full" ->
              /\ lastWrite' = "failed"
              /\ UNCHANGED <<localStorage, lastSaved>>
    /\ UNCHANGED <<formVars, analyzing, videoUrl, tagInput, posts, nEdits,
                   nPublish, sincePublish, visVars, liveVars>>

NextPost ==
    \/ \E u \in Urls : SetUrl(u)
    \/ AnalyzeStart
    \/ \E t, c \in Texts \ {""} : AnalyzeResolved(t, c)
    \/ AnalyzeRejected
    \/ \E t \in Texts : SetTitle(t)
    \/ \E c \in Texts : SetContent(c)
    \/ \E g \in Genres : SetGenre(g)
    \/ \E v \in {"", "x"} : SetTagInput(v)
    \/ HandleAddTag
    \/ \E tag \in TagNames : HandleRemoveTag(tag)
    \/ UploadStart
    \/ ImageLoaded
    \/ RemoveVisuals
    \/ HandlePublish
    \/ \E data \in saveTimers, quota \in Quotas : SaveTimerFired(data, quota)

\* PostCreator and the post list.  A timeout that stays set fires: the event
\* loop runs every timeout that is due.
Posting ==
    /\ InitWithDraft
    /\ [][NextPost]_vars
    /\ WF_vars(\E data \in saveTimers, quota \in Quotas :
                  SaveTimerFired(data, quota))

\* The whole visuals panel: on top of the steps above, the image editor, the
\* video generator and the video.  The completion of an image edit changes
\* the form the way ImageLoaded does, and the video is no part of the stored
\* data, so the saving of drafts is checked without them.
NextVisuals ==
    \/ NextPost
    \/ EditStart
    \/ EditResolved
    \/ EditRejected
    \/ GenerateStart
    \/ GenerateResolved
    \/ GenerateRejected
    \/ DiscardPreview
    \/ VideoGenerated
    \/ RemoveVideo

Visuals == InitWithDraft /\ [][NextVisuals]_vars

\* ------------------------------------------------ resources of a session
\* The microphone stream of call i: acquired when getUserMedia resolves; no
\* statement of the component stops its tracks.
micOpen(i) == pc[i] = "setup"

\* The 16 kHz input context of call i: a local of startSession, never closed.
inputContextOpen(i) == pc[i] = "setup"

\* The capture nodes of call i still wired (source -> processor -> output).
captureConnected(i) ==
    pc[i] = "setup" /\ (procDisconnected[i] = 0 \/ srcDisconnected[i] = 0)

\* The 24 kHz output context of call i: created by startSession, open until
\* close() is called on it.
outputContextOpen(i) == pc[i] # "none" /\ ctxClosed[i] = 0

\* The remote session of call i: requested by connectLiveSession; the
\* component never closes it, only the remote end does.
remoteOpen(i) == channel[i] \in {"pending", "open"}

\* The state disconnect() leaves the component in.
Terminal ==
    /\ status = "idle" /\ ~active /\ ~isSpeaking /\ volume = 0
    /\ audioContextRef = NoRef /\ inputSourceRef = NoRef /\ processorRef = NoRef

\* ------------------------------------------------------------------ claims
\* This step is the completion (decode resolved or rejected) of handler h.
Completes(h) == \A g \in decoding' : g.arr # h.arr

SameSessionPairs ==
    {p \in (1..Len(scheduled)) \X (1..Len(scheduled)) :
        p[1] < p[2] /\ scheduled[p[1]].sess = scheduled[p[2]].sess}

\* C1: within one session, every buffer is started no earlier than the end
\* (start + duration) of each buffer scheduled before it: start times are
\* non-decreasing and play windows never overlap.
C1_NoOverlap ==
    \A p \in SameSessionPairs :
        scheduled[p[2]].start >= scheduled[p[1]].start + scheduled[p[1]].dur

\* Two buffers of one session scheduled, the later arrival decoded first, and
\* the clock advanced past the first buffer's arrival.
C1_Witness ==
    /\ Len(scheduled) = 2
    /\ scheduled[1].sess = scheduled[2].sess
    /\ scheduled[1].arr > scheduled[2].arr
    /\ scheduled[2].now > 0

\* C2: every buffer's start time is at or after the clock of its context at
\* the moment source.start is called.
C2_StartNotBeforeNow ==
    \A j \in 1..Len(scheduled) : scheduled[j].start >= scheduled[j].now

\* C3: when a decode succeeds the buffer is started at max(cursor, clock now)
\* and the cursor becomes that start time plus the buffer's duration.
C3_StartIsMaxOfCursorAndNow ==
    [][\A h \in decoding :
          (h.ok /\ Completes(h)) =>
             /\ Len(scheduled') = Len(scheduled) + 1
             /\ scheduled'[Len(scheduled')].start =
                    Max(nextStartTimeRef, currentTime[h.ctx])
             /\ nextStartTimeRef' = scheduled'[Len(scheduled')].start + h.dur]_vars

\* C4: buffers are started in arrival order: a blob delivered earlier never
\* starts later than a blob delivered after it.
C4_ArrivalOrder ==
    \A i, j \in 1..Len(scheduled) :
        scheduled[i].arr < scheduled[j].arr =>
            scheduled[i].start <= scheduled[j].start

\* C5: when the decode of a blob fails (and no other blob was handled
\* meanwhile), the cursor is what it was before the blob arrived, the status
\* is unchanged and nothing is scheduled.
C5_FailedDecodeLeavesCursor ==
    [][\A h \in decoding :
          (~h.ok /\ h.alone /\ Completes(h)) =>
             /\ nextStartTimeRef' = h.before
             /\ UNCHANGED <<status, scheduled>>]_vars

\* C6: the completion of a decode that disconnect overtook is a no-op: no
\* playback scheduled, cursor not advanced, isSpeaking and volume not set.
C6_LateDecodeIsNoOp ==
    [][\A h \in decoding :
          (h.torn /\ Completes(h)) =>
             UNCHANGED <<scheduled, nextStartTimeRef, isSpeaking, volume>>]_vars

\* C7: disconnect called twice in succession leaves the state the first call
\* left (idle, not active, not speaking, volume 0, device refs null), and the
\* script processor, input source and output context it held are each
\* released exactly once over the two calls.
C7_DisconnectIdempotent ==
    /\ [](discCalls >= 1 => Terminal)
    /\ [](\A i \in Sessions :
             ctxClosed[i] <= 1 /\ procDisconnected[i] <= 1 /\ srcDisconnected[i] <= 1)
    /\ [][(discCalls = 0 /\ discCalls' = 1) =>
             /\ audioContextRef # NoRef => ctxClosed'[audioContextRef] = 1
             /\ inputSourceRef # NoRef => srcDisconnected'[inputSourceRef] = 1
             /\ processorRef # NoRef => procDisconnected'[processorRef] = 1]_vars
    /\ [][(discCalls = 1 /\ discCalls' = 2) => UNCHANGED <<progVars, devVars>>]_vars

\* disconnect has run twice in succession on a session whose three devices
\* were held.
C7_Witness ==
    /\ discCalls = 2
    /\ \E i \in Sessions :
          ctxClosed[i] = 1 /\ procDisconnected[i] = 1 /\ srcDisconnected[i] = 1

\* C8: once a session has ended (disconnect has run), every resource its
\* startSession acquired is released: microphone stream, input context and
\* capture nodes, output context, remote session.
C8_AllReleasedAfterEnd ==
    discCalls >= 1 =>
        \A i \in Sessions :
            /\ ~micOpen(i) /\ ~inputContextOpen(i) /\ ~captureConnected(i)
            /\ ~outputContextOpen(i) /\ ~remoteOpen(i)

\* C9: after a live session is disconnected the status is idle and, until the
\* next startSession, nothing changes status, active, isSpeaking, volume or
\* the cursor, and no frame is sent.
C9_QuietAfterDisconnect ==
    [][/\ quiesced' => status' = "idle"
       /\ (quiesced /\ quiesced') =>
             UNCHANGED <<status, active, isSpeaking, volume, nextStartTimeRef,
                         sent>>]_vars

\* C10: at most one session is open at a time: at most one output context,
\* one microphone stream, one capture pipeline and one remote channel.
C10_AtMostOneSession ==
    /\ Cardinality({i \in Sessions : outputContextOpen(i)}) <= 1
    /\ Cardinality({i \in Sessions : micOpen(i)}) <= 1
    /\ Cardinality({i \in Sessions : captureConnected(i)}) <= 1
    /\ Cardinality({i \in Sessions : remoteOpen(i)}) <= 1

\* C11: when getUserMedia rejects in call i, the status becomes error, and
\* that call holds no microphone stream and has requested no remote session,
\* then and ever after.
C11_MicFailureIsError ==
    [][\A i \in Sessions :
          /\ (pc[i] = "getUserMedia" /\ pc'[i] = "failed") => status' = "error"
          /\ pc'[i] = "failed" =>
                /\ pc'[i] # "setup"
                /\ inputSourceRef' # i /\ processorRef' # i
                /\ channel'[i] = "none" /\ sessionPromiseRef' # i]_vars

C11_Witness ==
    \E i \in Sessions :
        pc[i] = "failed" /\ status = "error" /\ ~micOpen(i) /\ channel[i] = "none"

\* C12: after startSession has failed during device setup no device handle
\* it had acquired is still open; in particular the output context created
\* before the microphone request is closed.
C12_FailedStartReleasesDevices ==
    \A i \in Sessions :
        pc[i] = "failed" =>
            ~outputContextOpen(i) /\ ~micOpen(i) /\ ~inputContextOpen(i)

\* C13: in the step in which the handshake of a call fails, the status moves
\* from connecting to error and the resources of that call are released.
C13_HandshakeFailureIsError ==
    [][\A i \in Sessions :
          (channel[i] = "pending" /\ channel'[i] = "rejected") =>
              /\ status = "connecting" => status' = "error"
              /\ ctxClosed'[i] = 1
              /\ procDisconnected'[i] = 1 /\ srcDisconnected'[i] = 1]_vars

\* C14: after the onError handler has run for a transport error the status
\* is error, the session is torn down and no connection attempt is under way.
C14_TransportErrorShowsError ==
    errored =>
        /\ status = "error"
        /\ ~active
        /\ audioContextRef = NoRef /\ inputSourceRef = NoRef
        /\ processorRef = NoRef

\* C16: the status leaves idle only for connecting, and only in a step of
\* startSession; the status becomes live only from connecting.
C16_StatusMachine ==
    [][/\ (status = "idle" /\ status' # "idle") =>
             (status' = "connecting" /\ nStarted' = nStarted + 1)
       /\ (status # "live" /\ status' = "live") => status = "connecting"]_vars

\* C15: the frames handed to a session's sendRealtimeInput are in capture
\* order, and the chunks whose continuations still wait on the session
\* promise come after them, in capture order too (chunks are numbered as
\* onaudioprocess receives them).
C15_CaptureOrder ==
    \A p \in Sessions :
        LET s == sent[p] \o queued[p] IN
        \A a, b \in 1..Len(s) : a < b => s[a] < s[b]

\* Two chunks captured, both handed to the same session.
C15_Witness ==
    \E p \in Sessions : Len(sent[p]) >= 2 /\ channel[p] = "open"

\* C17: whenever the speaking indicator is set it is eventually cleared
\* (isSpeaking false, volume 0), given that due timeouts fire.
C17_IndicatorEventuallyCleared ==
    (isSpeaking /\ volume = SpeakingVolume) ~> (~isSpeaking /\ volume = 0)

\* A buffer was scheduled and the indicator set for it, and the timeouts
\* have cleared it while the session is still live.
C17_Witness ==
    /\ Len(scheduled) >= 1 /\ active
    /\ timers = 0 /\ ~isSpeaking /\ volume = 0

\* C18: a call of handlePublish without a title or without content changes
\* nothing; any other call puts exactly one new post in front of the post
\* list, the earlier posts behind it in their order, and resets the form to
\* its defaults.
C18_Publish ==
    [][nPublish' # nPublish =>
          IF draft.title = "" \/ draft.content = ""
          THEN UNCHANGED <<formVars, videoUrl, posts, localStorage, saveTimers,
                           lastSaved>>
          ELSE /\ Len(posts') = Len(posts) + 1
               /\ posts'[1] = NewPost
               /\ \A k \in 1..Len(posts) : posts'[k + 1] = posts[k]
               /\ url' = "" /\ draft' = EmptyDraft /\ genre' = "Goth"
               /\ coverImage' = NoImage /\ videoUrl' = NoImage
               /\ tags' = DefaultTags]_vars

\* Two posts published, the later one in front, the form back at its
\* defaults.
C18_Witness ==
    /\ Len(posts) = 2 /\ posts[1] # posts[2]
    /\ nPublish = 2
    /\ Form = DataToSave("", EmptyDraft, DefaultTags, "Goth", NoImage)

\* C19: from a publish until the next change of the form, nothing is stored
\* under the draft key.
C19_NoDraftAfterPublish == sincePublish => localStorage = NoDraft

\* C20 as stated: at most one save is pending, and when none is pending the
\* stored draft is the values of the form, or those values without
\* coverImage when the write with it failed.
C20_StoredIsLatest ==
    /\ Cardinality(saveTimers) <= 1
    /\ saveTimers = {} =>
          \/ localStorage = {Form}
          \/ lastWrite = "rest" /\ localStorage = {Rest(Form)}

\* C20: at most one save is pending, it holds the values of the form, and a
\* pending save leads to a state with none pending in which the stored draft
\* is the values of the form, or those values without coverImage when the
\* write with it failed, or the write without it failed as well.
C20_Debounced ==
    /\ [](saveTimers \subseteq {Form})
    /\ (saveTimers # {}) ~>
          /\ saveTimers = {}
          /\ \/ lastWrite = "whole" /\ localStorage = {Form}
             \/ lastWrite = "rest" /\ localStorage = {Rest(Form)}
             \/ lastWrite = "failed"

\* The form was changed, the one pending save has run and stored all of it.
C20_Witness ==
    /\ nEdits >= 2 /\ saveTimers = {}
    /\ lastWrite = "whole" /\ localStorage = {Form}

\* C21: active is true exactly when the status is live.
C21_ActiveIffLive == active <=> status = "live"

\* C22: once the cover image has been cleared (Remove Visuals, publishing) it
\* stays null until a file the user uploads has been read: a step that takes
\* coverImage from null to an image is the landing of a file read, never the
\* completion of an image edit.
C22_ClearedStaysNull ==
    [][coverImage = NoImage /\ coverImage' # NoImage => reading' < reading]_vars

\* C23: a video is never attached without a cover image: in every reachable
\* state a non-null videoUrl implies a non-null coverImage, whatever file
\* reads, image edits and video generations complete late.
C23_VideoNeedsCover == videoUrl # NoImage => coverImage # NoImage

\* A video has been accepted while an image edit is still in flight.
C23_Witness == videoUrl # NoImage /\ coverImage # NoImage /\ imageEdits > 0

====
